---- MODULE Spec2Model ----
(***************************************************************************)
(* Steam screenshot / clip synchronisation of game-media-sync:             *)
(*   platforms/steam/uploader.py  (screenshots, upload_tracker.json)       *)
(*   platforms/steam/clips.py     (clips, clips_tracker.json)              *)
(*   core/upload.py, core/transfer.py (upload wrappers)                    *)
(*   core/tracker.py              (UploadTracker)                          *)
(* A run of main() is modelled as a process that loads the tracker file,   *)
(* discovers and filters the source items, processes the candidates one by *)
(* one and finally saves the tracker.  The wall-clock "upload_time" field  *)
(* of a log entry is not modelled; an entry is its identity and its        *)
(* creation_time.                                                          *)
(***************************************************************************)
EXTENDS Integers, Sequences, FiniteSets, TLC

\* ---- bounds ------------------------------------------------------------
NItems == 3          \* size of the universe of source items
MaxCalls == 3        \* number of direct calls on an UploadTracker object

Items == 1 .. NItems
Procs == {1, 2}
Media == {"screenshots", "clips"}

\* creation_time of item i: 1, 2, 2, 3, 3, ...  (items 2 and 3 collide)
\* uploader.py:73  int(screenshot_data["creation"]) ; clips.py:165
creation_time(i) == (i + 2) \div 2

MaxTime == creation_time(NItems)

Max(S) == CHOOSE x \in S : \A y \in S : y <= x
Range(s) == {s[k] : k \in 1 .. Len(s)}

\* ---- tracker documents -------------------------------------------------
\* A log entry: {"filename"/"clip_name": id, "creation_time": t}
Entry(i) == [id |-> i, t |-> creation_time(i)]

\* What is on disk under the tracker file name.
\*   missing     : no such file
\*   garbage     : text that is not JSON            (json.JSONDecodeError)
\*   undecodable : bytes that are not valid text    (UnicodeDecodeError)
\*   nonobject   : valid JSON that is not an object (e.g. [] or 5)
\*   object      : {"last_upload_time": wm, "uploaded_...": log}
FileKinds == {"missing", "garbage", "undecodable", "nonobject", "object"}
Doc(k, w, l) == [kind |-> k, wm |-> w, log |-> l]

\* the literal {"last_upload_time": 0, "uploaded_screenshots": []}
DefaultTracker == Doc("object", 0, <<>>)

\* uploader.py:26-34  (except (json.JSONDecodeError, FileNotFoundError))
load_upload_tracker(f) ==
    IF f.kind = "missing" THEN [raised |-> FALSE, data |-> DefaultTracker]
    ELSE IF f.kind = "garbage" THEN [raised |-> FALSE, data |-> DefaultTracker]
    ELSE IF f.kind = "undecodable" THEN [raised |-> TRUE, data |-> DefaultTracker]
    ELSE [raised |-> FALSE, data |-> f]

\* clips.py:492-501  (except Exception)
load_clips_tracker(f) ==
    IF f.kind \in {"missing", "garbage", "undecodable"}
    THEN [raised |-> FALSE, data |-> DefaultTracker]
    ELSE [raised |-> FALSE, data |-> f]

\* tracker.get("last_upload_time", 0): AttributeError unless the loaded
\* value is a dict  (uploader.py:110-111, clips.py:515-516)
tracker_get(l) ==
    IF l.raised \/ l.data.kind # "object"
    THEN [raised |-> TRUE, data |-> DefaultTracker]
    ELSE l

LoadTracker(m, f) ==
    tracker_get(IF m = "screenshots" THEN load_upload_tracker(f)
                ELSE load_clips_tracker(f))

\* ---- the new-item filter -----------------------------------------------
\* core/tracker.py:24-25
is_new(creation, last_upload_time) == creation > last_upload_time

\* A plausible slip: the filter keeps an item at the watermark.
get_new_screenshots_inclusive(screenshots, last_upload_time) ==
    SelectSeq(screenshots, LAMBDA s : creation_time(s) >= last_upload_time)

\* uploader.py:87-89
get_new_screenshots(screenshots, last_upload_time) ==
    SelectSeq(screenshots, LAMBDA s : creation_time(s) > last_upload_time)

\* A plausible slip: the watermark not consulted by the filter.
get_new_clips_all(clips, last_upload_time) == clips

\* A plausible slip: the boundary clip kept by the filter.
get_new_clips_inclusive(clips, last_upload_time) ==
    SelectSeq(clips, LAMBDA c : creation_time(c) >= last_upload_time)

\* clips.py:477-479
get_new_clips(clips, last_upload_time) ==
    SelectSeq(clips, LAMBDA c : creation_time(c) > last_upload_time)

GetNew(m, all, w) ==
    IF m = "screenshots" THEN get_new_screenshots(all, w)
    ELSE get_new_clips(all, w)

\* ---- upload ------------------------------------------------------------
\* What the server does with the POST /api/assets request.
Responses == {"created", "duplicate", "empty_object", "non_json",
              "error_object", "http_error", "timeout"}

\* The answer as the histories record it: the two transport failures are
\* not told apart.
Answer(resp) == IF resp \in {"http_error", "timeout"} THEN "error" ELSE resp

\* A plausible slip: the "duplicate" status reported as an error.
upload_file_to_immich_dup_raises(resp) ==
    IF resp \in {"http_error", "timeout", "error_object", "duplicate"}
    THEN [raised |-> TRUE, result |-> "none"]
    ELSE [raised |-> FALSE, result |-> resp]

\* core/upload.py:135-172: raise_for_status, response.json() with the
\* ValueError fallback, "error" in result, return result
upload_file_to_immich(resp) ==
    IF resp \in {"http_error", "timeout", "error_object"}
    THEN [raised |-> TRUE, result |-> "none"]
    ELSE [raised |-> FALSE, result |-> resp]

\* Python truthiness of the returned value: {} is falsy, a non-empty dict
\* (asset id and status, or the response_text fallback) is truthy.
Truthy(result) == result \in {"created", "duplicate", "non_json"}

\* core/upload.py:207-239  upload_media / upload_screenshot: returns the
\* result of upload_file_to_immich, False on any exception
upload_screenshot(exists, resp) ==
    IF ~exists THEN FALSE
    ELSE LET r == upload_file_to_immich(resp)
         IN  IF r.raised THEN FALSE ELSE Truthy(r.result)

\* core/transfer.py:8-54  upload_media / upload_video: True unless raised
upload_video(resp) ==
    LET r == upload_file_to_immich(resp)
    IN  IF r.raised THEN FALSE ELSE TRUE

\* clips.py:413-474.  e.mpd: session.mpd was found; e.convert: what
\* convert_clip_to_mp4 returned; e.utime: os.utime succeeded.  No except
\* clause surrounds the body, so an error of os.utime leaves the function.
upload_clip_to_immich(e) ==
    IF ~e.mpd THEN [raised |-> FALSE, value |-> FALSE, step |-> "no_mpd"]
    ELSE IF ~e.convert
    THEN [raised |-> FALSE, value |-> FALSE, step |-> "convert"]
    ELSE IF ~e.utime
    THEN [raised |-> TRUE, value |-> FALSE, step |-> "utime"]
    ELSE [raised |-> FALSE, value |-> upload_video(e.resp), step |-> "upload"]

\* uploader.py:131-149: os.path.exists(full_path), then upload_screenshot
process_screenshot(e) ==
    IF ~e.exists THEN [raised |-> FALSE, value |-> FALSE, step |-> "exists"]
    ELSE [raised |-> FALSE, value |-> upload_screenshot(TRUE, e.resp),
          step |-> "upload"]

\* The environment of one attempt.
ScreenshotEnv ==
    {[exists |-> x, mpd |-> TRUE, convert |-> TRUE, utime |-> TRUE, resp |-> r] :
        x \in BOOLEAN, r \in Responses}
ClipEnv ==
    {[exists |-> TRUE, mpd |-> a, convert |-> b, utime |-> c, resp |-> r] :
        a \in BOOLEAN, b \in BOOLEAN, c \in BOOLEAN, r \in Responses}

ProcessOne(m, e) ==
    IF m = "screenshots" THEN process_screenshot(e) ELSE upload_clip_to_immich(e)


Env(m) == IF m = "screenshots" THEN ScreenshotEnv ELSE ClipEnv

\* ---- discovery ---------------------------------------------------------
\* The sequences a stable sort by creation_time can return for the set S:
\* uploader.py:79 all_screenshots.sort(...), clips.py:176 clips.sort(...)
SortedSeqs(S) ==
    {s \in [1 .. Cardinality(S) -> S] :
        /\ \A a, b \in 1 .. Cardinality(S) : a # b => s[a] # s[b]
        /\ \A a, b \in 1 .. Cardinality(S) :
              a < b => creation_time(s[a]) <= creation_time(s[b])}

\* uploader.py:43-84 get_all_screenshots: the whole index, or [] when the
\* index file is missing or reading it raises.
get_all_screenshots(src) == {src, {}}

\* clips.py:102-177 discover_clips: the entries listed before an error of
\* the directory walk, all of them when there is none.
discover_clips(src) == SUBSET src

Discover(m, src) ==
    IF m = "screenshots" THEN get_all_screenshots(src) ELSE discover_clips(src)

\* The two discovery functions entry by entry.  An entry of the index file
\* or of the clips directory is [item, kind]; the list is in the order the
\* file or the directory listing gives.
\* list.sort(key=creation_time) is stable (uploader.py:79, clips.py:176)
RECURSIVE SortFrom(_, _)
SortFrom(s, t) ==
    IF t > MaxTime THEN <<>>
    ELSE SelectSeq(s, LAMBDA x : creation_time(x) = t) \o SortFrom(s, t + 1)
sort_by_creation_time(s) == SortFrom(s, 0)

ItemsOf(entries) == [k \in 1 .. Len(entries) |-> entries[k].item]

\* uploader.py:64-84: a record without "creation" or "filename" is skipped
\* by the if; int() of a non-numeric game id, screenshot id or creation
\* raises ValueError, which the except around the whole body turns into [].
ScreenshotKinds == {"ok", "nokeys", "badint"}
scan_screenshots(entries) ==
    IF \E k \in 1 .. Len(entries) : entries[k].kind = "badint"
    THEN <<>>
    ELSE sort_by_creation_time(
             ItemsOf(SelectSeq(entries, LAMBDA e : e.kind = "ok")))

\* clips.py:121-177: plain files and names that do not match the pattern
\* are skipped by continue; os.listdir(video_dir) of an unreadable clip
\* directory raises inside the try that encloses the for loop, which ends
\* the loop with the clips appended so far.
ClipKinds == {"ok", "notdir", "nomatch", "unreadable"}
RECURSIVE UpToUnreadable(_)
UpToUnreadable(entries) ==
    IF entries = <<>> \/ Head(entries).kind = "unreadable" THEN <<>>
    ELSE <<Head(entries)>> \o UpToUnreadable(Tail(entries))
scan_clips(entries) ==
    sort_by_creation_time(
        ItemsOf(SelectSeq(UpToUnreadable(entries), LAMBDA e : e.kind = "ok")))

\* Lists of at most n entries over distinct items.
EntryLists(kinds, n) ==
    {s \in UNION {[1 .. k -> [item : Items, kind : kinds]] : k \in 0 .. n} :
        \A a, b \in 1 .. Len(s) : a # b => s[a].item # s[b].item}

\* ---- convert_clip_to_mp4 (clips.py:180-410) ----------------------------
MaxFiles == 3

\* File names of a clip's media directory: the name is pre, then the digits
\* of num, then suf.
F(pre, num, suf) == [pre |-> pre, num |-> num, suf |-> suf]
VideoInit == F("init-stream0.m4s", <<>>, "")
AudioInit == F("init-stream1.m4s", <<>>, "")
SessionMpd == F("session.mpd", <<>>, "")
ChunkNums == {<<1>>, <<1, 0>>, <<2>>}
DirFiles ==
    {VideoInit, AudioInit, SessionMpd, F("chunk-stream0-", <<1>>, ".tmp")}
        \cup {F("chunk-stream0-", n, ".m4s") : n \in ChunkNums}
        \cup {F("chunk-stream1-", n, ".m4s") : n \in {<<1>>, <<2>>}}

\* os.listdir: the files of the directory in arbitrary order
Listings ==
    {l \in UNION {[1 .. k -> DirFiles] : k \in 0 .. MaxFiles} :
        \A a, b \in 1 .. Len(l) : a # b => l[a] # l[b]}

\* clips.py:212-220 the startswith / endswith tests
is_video_init(f) == f.pre = "init-stream0.m4s"
is_audio_init(f) == f.pre = "init-stream1.m4s"
is_video_chunk(f) == f.pre = "chunk-stream0-" /\ f.suf = ".m4s"
is_audio_chunk(f) == f.pre = "chunk-stream1-" /\ f.suf = ".m4s"

\* str comparison of two chunk names of one stream: the digits are
\* compared character by character, and where one name's digits end its
\* "." sorts before any digit of the other.
RECURSIVE DigitsLess(_, _)
DigitsLess(a, b) ==
    IF a = <<>> THEN b # <<>>
    ELSE IF b = <<>> THEN FALSE
    ELSE IF Head(a) # Head(b) THEN Head(a) < Head(b)
    ELSE DigitsLess(Tail(a), Tail(b))
NameLess(f, g) == DigitsLess(f.num, g.num)

\* A plausible slip: the chunks ordered by the number their digits spell.
RECURSIVE sorted_by_number(_)
sorted_by_number(S) ==
    IF S = {} THEN <<>>
    ELSE LET n(d) == IF Len(d) = 1 THEN d[1] ELSE 10 * d[1] + d[2]
             m == CHOOSE f \in S : \A g \in S : n(f.num) <= n(g.num)
         IN  <<m>> \o sorted_by_number(S \ {m})

\* clips.py:222-223 list.sort() of the chunk paths of one stream
RECURSIVE sorted(_)
sorted(S) ==
    IF S = {} THEN <<>>
    ELSE LET m == CHOOSE f \in S : \A g \in S : g # f => NameLess(f, g)
         IN  <<m>> \o sorted(S \ {m})

\* clips.py:225-234
video_chunks(listing) ==
    (IF \E f \in Range(listing) : is_video_init(f)
     THEN <<VideoInit>> ELSE <<>>)
        \o sorted({f \in Range(listing) : is_video_chunk(f)})
audio_chunks(listing) ==
    (IF \E f \in Range(listing) : is_audio_init(f)
     THEN <<AudioInit>> ELSE <<>>)
        \o sorted({f \in Range(listing) : is_audio_chunk(f)})

\* subprocess.run(cmd, timeout=300) and the test of its result
\* (clips.py:376-392); TimeoutExpired is caught at clips.py:408-410
FfmpegOutcomes == {"ok", "nonzero", "timeout"}

\* clips.py:243-251 and 400-406: both temporary files are created with
\* delete=False; the finally clause unlinks the video one, and the audio
\* one only if audio_chunks.  What is still there on return:
temp_files_left(audio) == IF audio = <<>> THEN {"temp_audio"} ELSE {}

\* The whole function: what is written to the two temporary files,
\* whether ffmpeg is run, the value returned, and the temporary files
\* that exist on return.
convert_clip_to_mp4(listing, ffmpeg) ==
    LET v == video_chunks(listing)
        a == audio_chunks(listing)
    IN  IF v = <<>>
        THEN [video |-> <<>>, audio |-> <<>>, remux |-> FALSE, ok |-> FALSE,
              created |-> FALSE, temps |-> {}]
        ELSE [video |-> v, audio |-> a, remux |-> TRUE,
              ok |-> ffmpeg = "ok",
              created |-> TRUE, temps |-> temp_files_left(a)]

\* ---- the legacy convert_clip_to_mp4 (gameclips_uploader.py:118-335) ----
\* str comparison of two paths of one directory: a chunk name sorts before
\* an init name ("c" < "i"), two chunk names of one stream by their digits.
PathLess(f, g) ==
    IF f.pre = g.pre THEN NameLess(f, g)
    ELSE f.pre = "chunk-stream0-" \/ f.pre = "chunk-stream1-"

\* gameclips_uploader.py:154-155 list.sort() of a list that holds the init
\* segment and the chunks of one stream
RECURSIVE legacy_sorted(_)
legacy_sorted(S) ==
    IF S = {} THEN <<>>
    ELSE LET m == CHOOSE f \in S : \A g \in S : g # f => PathLess(f, g)
         IN  <<m>> \o legacy_sorted(S \ {m})

\* gameclips_uploader.py:143-155: init segment and chunks are appended to
\* the same list, which is then sorted
legacy_video_chunks(listing) ==
    legacy_sorted({f \in Range(listing) :
                      is_video_init(f) \/ is_video_chunk(f)})
legacy_audio_chunks(listing) ==
    legacy_sorted({f \in Range(listing) :
                      is_audio_init(f) \/ is_audio_chunk(f)})

\* ---- upload_file_to_immich and its files (core/upload.py:50-175) -------
\* core/metadata.py:97-130 set_image_metadata: shutil.copy2 to dest, then
\* exiftool on dest; any failure returns False.  "copy_fails": no dest
\* file was made; "tool_fails": exiftool returned nonzero, raised or timed
\* out after the copy was made.
EmbedOutcomes == {"ok", "copy_fails", "tool_fails"}
set_image_metadata(o) == [ok |-> o = "ok", dest_exists |-> o # "copy_fails"]

\* core/upload.py:41-47: the files cleanup_temp_file removes
cleanup_temp_file(file_path, original_path) ==
    IF file_path # original_path THEN {file_path} ELSE {}

\* core/upload.py:93-175 for one file.  hashed: the file the
\* x-immich-checksum header is computed from (the file named by filename,
\* core/upload.py:93-98); sent: the file opened for the request
\* (core/upload.py:116-136); exif_left: the _exif copy exists on return;
\* original_exists: the original does.
upload_file_effects(video, o, resp) ==
    LET m == set_image_metadata(o)
        sent == IF ~video /\ m.ok THEN "tagged" ELSE "original"
        r == upload_file_to_immich(resp)
    IN  [raised |-> r.raised, result |-> r.result,
         hashed |-> "original", sent |-> sent,
         exif_left |-> /\ ~video
                       /\ m.dest_exists
                       /\ "tagged" \notin cleanup_temp_file(sent, "original"),
         original_exists |-> TRUE]

\* ---- end of run --------------------------------------------------------
\* A plausible slip: the tracker saved at the end of every run.
ShouldSave_always(n) == n >= 0

\* uploader.py:151 / clips.py:573  if successful_uploads > 0
ShouldSave(n) == n > 0

\* The advance as section 4.3 of the specification words it: the maximum
\* over the candidates that succeeded.
latest_of_succeeded(new_items, succeeded_items) ==
    Max({creation_time(succeeded_items[k]) : k \in 1 .. Len(succeeded_items)})

\* A plausible slip: the advance stops below the first candidate that
\* failed, so that no failed candidate is passed over.
latest_before_first_failure(new_items, succeeded_items) ==
    LET failedTimes == {creation_time(new_items[k]) : k \in
                          {j \in 1 .. Len(new_items) :
                              new_items[j] \notin Range(succeeded_items)}}
    IN  IF failedTimes = {}
        THEN Max({creation_time(new_items[k]) : k \in 1 .. Len(new_items)})
        ELSE (CHOOSE t \in failedTimes : \A u \in failedTimes : t <= u) - 1

\* uploader.py:152 max(s["creation_time"] for s in new_screenshots)
\* clips.py:574    max(c["creation_time"] for c in new_clips)
latest_upload_time(new_items, succeeded_items) ==
    Max({creation_time(new_items[k]) : k \in 1 .. Len(new_items)})

WriteOutcomes == {"ok", "open_fails"}

\* A plausible slip: what another run put on disk meanwhile is merged in.
save_upload_tracker_merging(f, data, w) ==
    IF w = "ok"
    THEN LET disk == IF f.kind = "object" THEN f.log ELSE <<>>
             more == SelectSeq(disk, LAMBDA x : x \notin Range(data.log))
             dwm == IF f.kind = "object" THEN f.wm ELSE 0
         IN  [raised |-> FALSE,
              file |-> [data EXCEPT !.log = @ \o more,
                                    !.wm = IF dwm > @ THEN dwm ELSE @],
              wrote |-> "ok"]
    ELSE [raised |-> TRUE, file |-> f, wrote |-> "failed"]

\* uploader.py:37-40: open(TRACKING_FILE, "w"); json.dump -- errors leave
save_upload_tracker(f, data, w) ==
    IF w = "ok" THEN [raised |-> FALSE, file |-> data, wrote |-> "ok"]
    ELSE [raised |-> TRUE, file |-> f, wrote |-> "failed"]

\* clips.py:482-489: the same inside try/except Exception
save_clips_tracker(f, data, w) ==
    IF w = "ok" THEN [raised |-> FALSE, file |-> data, wrote |-> "ok"]
    ELSE [raised |-> FALSE, file |-> f, wrote |-> "failed"]

SaveTracker(m, f, data, w) ==
    IF m = "screenshots" THEN save_upload_tracker(f, data, w)
    ELSE save_clips_tracker(f, data, w)

\* ---- UploadTracker (core/tracker.py) -----------------------------------
\* core/tracker.py:30-31
update_time(data, timestamp) == [data EXCEPT !.wm = timestamp]

\* A plausible slip: the success counted but its entry never appended.
record_dropped(data, entry) == data

\* A plausible slip: the log started afresh by the entry.
record_afresh(data, entry) == [data EXCEPT !.log = <<entry>>]

\* core/tracker.py:27-28
record(data, entry) == [data EXCEPT !.log = Append(@, entry)]

\* ---- state -------------------------------------------------------------
VARIABLES
    media,        \* which sync this behaviour is about
    store,        \* items present in the Steam source store
    file,         \* the tracker file on disk
    pc,           \* position of each run inside main()
    credsOK,      \* IMMICH_API_KEY and IMMICH_SERVER_URL were set
    tracker,      \* the tracker dict in memory
    all,          \* all_screenshots / all_clips
    discovered,   \* discovery was reached in this run
    new,          \* new_screenshots / new_clips
    idx,          \* position of the for loop in new
    successful,   \* successful_uploads
    failed,       \* failed_uploads
    attempted,    \* history: candidates whose processing was started
    succeeded,    \* history: candidates counted as successful
    last,         \* history: the last attempt
    wrote,        \* history: "none", "ok" or "failed" write of this run
    err,          \* where the run raised: "none", "load", "item", "save"
    fileAtStart,  \* history: the tracker file when the run began
    prev,         \* history: the run before the current one: it completed
                  \* after discovering `items`, had `candidates` candidates
                  \* and its write was `wrote`; `same` once the current
                  \* run has discovered the same items again
    cut,          \* history: the candidates of the run before, when it
                  \* ended inside its loop; kept until the current run
                  \* goes on from its discovery
    passed,       \* history: candidates that failed in a run that reached
                  \* the end of its loop while a candidate with a larger
                  \* (later) or the same (tie) creation_time succeeded.
                  \* laterSaved, tieSaved: those of every earlier run whose
                  \* write went through; later, tie: those of the run
                  \* before, of which discovery keeps the ones that are
                  \* candidates again
    ut,           \* an UploadTracker object's _data
    probe,        \* history: the last direct call and its result
    calls,        \* number of direct calls made
    call,         \* history: the last call of a discovery or conversion
                  \* function, its input and what it returned
    sw_folder,    \* the files in the game folders of the Switch source folder
    sw_pc,        \* position of process_switch2_folder
    sw_list,      \* the files in the order iterdir() yields them
    sw_idx,       \* position of the loops in sw_list
    total_files,  \* the three counters of process_switch2_folder
    sw_successful,
    sw_failed,
    sw_requested, \* history: the files an upload request was made for
    sw_last,      \* history: the last file processed and what happened
    sw_prev       \* history: the run before ended with its summary over
                  \* the folder as it is now (same), having made upload
                  \* requests for these files (requested)

runVars == <<media, store, file, pc, credsOK, tracker, all, discovered,
             new, idx, successful, failed, attempted, succeeded, last,
             wrote, err, fileAtStart, prev, passed, cut>>

utVars == <<ut, probe, calls>>

fnVars == <<call>>

swVars == <<sw_folder, sw_pc, sw_list, sw_idx, total_files, sw_successful,
            sw_failed, sw_requested, sw_last, sw_prev>>

vars == <<runVars, utVars, fnVars, swVars>>

NoLast == [item |-> 0, step |-> "none", resp |-> "none", status |-> "none"]
NoPrev == [completed |-> FALSE, items |-> {}, candidates |-> 0,
           wrote |-> "none", same |-> FALSE]
NoPassed == [later |-> {}, tie |-> {}, laterSaved |-> {}, tieSaved |-> {}]
NoCall == [op |-> "none"]
NoSwLast == [file |-> "none", step |-> "none", embedded |-> FALSE,
             requested |-> FALSE, sent |-> "none", resp |-> "none",
             status |-> "none"]
NoSwPrev == [same |-> FALSE, requested |-> {}]
NoProbe == [op |-> "none", arg |-> 0, list |-> <<>>, before |-> 0,
            res |-> FALSE, out |-> <<>>]

\* Tracker files that can be on disk before the first run.
InitialFiles ==
    {Doc(k, 0, <<>>) : k \in {"missing", "garbage", "undecodable", "nonobject"}}

InitRun ==
    /\ media \in Media
    /\ store = {}
    /\ file \in InitialFiles
    /\ pc = [p \in Procs |-> "idle"]
    /\ credsOK = [p \in Procs |-> TRUE]
    /\ tracker = [p \in Procs |-> DefaultTracker]
    /\ all = [p \in Procs |-> <<>>]
    /\ discovered = [p \in Procs |-> FALSE]
    /\ new = [p \in Procs |-> <<>>]
    /\ idx = [p \in Procs |-> 1]
    /\ successful = [p \in Procs |-> 0]
    /\ failed = [p \in Procs |-> 0]
    /\ attempted = [p \in Procs |-> <<>>]
    /\ succeeded = [p \in Procs |-> <<>>]
    /\ last = [p \in Procs |-> NoLast]
    /\ wrote = [p \in Procs |-> "none"]
    /\ err = [p \in Procs |-> "none"]
    /\ fileAtStart = [p \in Procs |-> file]
    /\ prev = NoPrev
    /\ passed = NoPassed
    /\ cut = {}

InitUT ==
    /\ ut = DefaultTracker
    /\ probe = NoProbe
    /\ calls = 0

InitFn == call = NoCall

InitSwitch ==
    /\ sw_folder = {}
    /\ sw_pc = "idle"
    /\ sw_list = <<>>
    /\ sw_idx = 1
    /\ total_files = 0
    /\ sw_successful = 0
    /\ sw_failed = 0
    /\ sw_requested = <<>>
    /\ sw_last = NoSwLast
    /\ sw_prev = NoSwPrev

Init == InitRun /\ InitUT /\ InitFn /\ InitSwitch

Ended(p) == pc[p] \in {"idle", "done", "crashed"}

\* The run of p went through its whole loop (uploader.py:130-149).
LoopEnded(p) ==
    /\ discovered[p]
    /\ new[p] # <<>>
    /\ pc[p] = "done" \/ (pc[p] = "crashed" /\ err[p] = "save")

\* Candidates of the run of p that failed while a candidate whose
\* creation_time is larger, or the same, succeeded.
FailedBelow(p) ==
    {a \in Range(new[p]) \ Range(succeeded[p]) :
        \E b \in Range(succeeded[p]) : creation_time(b) > creation_time(a)}
FailedBeside(p) ==
    {a \in Range(new[p]) \ Range(succeeded[p]) :
        \E b \in Range(succeeded[p]) : creation_time(b) = creation_time(a)}

\* scripts/upload_steam.py:16 sys.exit(main() or 0): main() returns None on
\* every path that returns, an exception that leaves main() ends the
\* interpreter with status 1.
exit_status(p) == IF pc[p] = "crashed" THEN 1 ELSE 0

\* ---- main(): uploader.py:92-159, clips.py:504-588 ----------------------
\* Credentials check and tracker load (uploader.py:105-111, clips.py:509-516).
\* added: the screenshots or clips that appeared in the source store since
\* the run before.
Begin(p, c, added) ==
    /\ Ended(p)
    /\ store' = store \cup added
    /\ prev' = IF pc[p] = "done" /\ discovered[p]
               THEN [completed |-> TRUE, items |-> Range(all[p]),
                     candidates |-> Len(new[p]), wrote |-> wrote[p],
                     same |-> FALSE]
               ELSE NoPrev
    /\ passed' = IF LoopEnded(p)
                 THEN LET ok == wrote[p] = "ok"
                      IN  [later |-> FailedBelow(p),
                           tie |-> FailedBeside(p),
                           laterSaved |-> passed.laterSaved \cup
                              (IF ok THEN FailedBelow(p) ELSE {}),
                           tieSaved |-> passed.tieSaved \cup
                              (IF ok THEN FailedBeside(p) ELSE {})]
                 ELSE [passed EXCEPT !.later = {}, !.tie = {}]
    /\ cut' = IF pc[p] = "crashed" /\ err[p] \in {"item", "interrupt"}
              THEN Range(new[p]) ELSE {}
    /\ credsOK' = [credsOK EXCEPT ![p] = c]
    /\ fileAtStart' = [fileAtStart EXCEPT ![p] = file]
    /\ all' = [all EXCEPT ![p] = <<>>]
    /\ discovered' = [discovered EXCEPT ![p] = FALSE]
    /\ new' = [new EXCEPT ![p] = <<>>]
    /\ idx' = [idx EXCEPT ![p] = 1]
    /\ successful' = [successful EXCEPT ![p] = 0]
    /\ failed' = [failed EXCEPT ![p] = 0]
    /\ attempted' = [attempted EXCEPT ![p] = <<>>]
    /\ succeeded' = [succeeded EXCEPT ![p] = <<>>]
    /\ last' = [last EXCEPT ![p] = NoLast]
    /\ wrote' = [wrote EXCEPT ![p] = "none"]
    /\ LET l == LoadTracker(media, file)
       IN  IF ~c
           THEN /\ pc' = [pc EXCEPT ![p] = "done"]
                /\ err' = [err EXCEPT ![p] = "none"]
                /\ tracker' = [tracker EXCEPT ![p] = DefaultTracker]
           ELSE IF l.raised
           THEN /\ pc' = [pc EXCEPT ![p] = "crashed"]
                /\ err' = [err EXCEPT ![p] = "load"]
                /\ tracker' = [tracker EXCEPT ![p] = DefaultTracker]
           ELSE /\ pc' = [pc EXCEPT ![p] = "loaded"]
                /\ err' = [err EXCEPT ![p] = "none"]
                /\ tracker' = [tracker EXCEPT ![p] = l.data]
    /\ UNCHANGED <<media, file>>
    /\ UNCHANGED <<utVars, fnVars, swVars>>

\* Discovery, filter and the two early returns
\* (uploader.py:113-123, clips.py:523-535)
DiscoverAndFilter(p, s) ==
    /\ pc[p] = "loaded"
    /\ all' = [all EXCEPT ![p] = s]
    /\ discovered' = [discovered EXCEPT ![p] = TRUE]
    /\ LET n == IF s = <<>> THEN <<>> ELSE GetNew(media, s, tracker[p].wm)
       IN  /\ new' = [new EXCEPT ![p] = n]
           /\ passed' = [passed EXCEPT !.later = @ \cap Range(n),
                                       !.tie = @ \cap Range(n)]
           /\ pc' = [pc EXCEPT ![p] = IF n = <<>> THEN "done" ELSE "loop"]
    /\ prev' = IF prev.completed /\ Range(s) = prev.items
               THEN [prev EXCEPT !.items = {}, !.same = TRUE]
               ELSE NoPrev
    /\ UNCHANGED <<media, store, file, credsOK, tracker, idx, successful,
                   failed, attempted, succeeded, last, wrote, err,
                   fileAtStart, cut>>
    /\ UNCHANGED <<utVars, fnVars, swVars>>

\* A plausible slip: the tracker saved after each success.
ProcessItem_saving(p, e) ==
    /\ pc[p] = "loop"
    /\ idx[p] <= Len(new[p])
    /\ LET i == new[p][idx[p]]
           r == ProcessOne(media, e)
           rs == IF r.step = "upload" THEN Answer(e.resp) ELSE "none"
       IN  /\ attempted' = [attempted EXCEPT ![p] = Append(@, i)]
           /\ IF r.raised
              THEN /\ pc' = [pc EXCEPT ![p] = "crashed"]
                   /\ err' = [err EXCEPT ![p] = "item"]
                   /\ last' = [last EXCEPT ![p] =
                        [item |-> i, step |-> r.step, resp |-> rs,
                         status |-> "raised"]]
                   /\ UNCHANGED <<idx, successful, failed, succeeded, tracker>>
                   /\ UNCHANGED file
              ELSE IF r.value
              THEN /\ successful' = [successful EXCEPT ![p] = @ + 1]
                   /\ tracker' = [tracker EXCEPT ![p] = record(@, Entry(i))]
                   /\ succeeded' = [succeeded EXCEPT ![p] = Append(@, i)]
                   /\ idx' = [idx EXCEPT ![p] = @ + 1]
                   /\ last' = [last EXCEPT ![p] =
                        [item |-> i, step |-> r.step, resp |-> rs,
                         status |-> "ok"]]
                   /\ file' = record(tracker[p], Entry(i))
                   /\ UNCHANGED <<pc, err, failed>>
              ELSE /\ failed' = [failed EXCEPT ![p] = @ + 1]
                   /\ idx' = [idx EXCEPT ![p] = @ + 1]
                   /\ last' = [last EXCEPT ![p] =
                        [item |-> i, step |-> r.step, resp |-> rs,
                         status |-> "failed"]]
                   /\ UNCHANGED <<pc, err, successful, succeeded, tracker>>
                   /\ UNCHANGED file
    /\ UNCHANGED <<media, store, credsOK, all, discovered, new,
                   wrote, fileAtStart, prev, passed>>
    /\ cut' = {}
    /\ UNCHANGED <<utVars, fnVars, swVars>>

\* One iteration of the for loop (uploader.py:130-149, clips.py:551-571)
ProcessItem(p, e) ==
    /\ pc[p] = "loop"
    /\ idx[p] <= Len(new[p])
    /\ LET i == new[p][idx[p]]
           r == ProcessOne(media, e)
           rs == IF r.step = "upload" THEN Answer(e.resp) ELSE "none"
       IN  /\ attempted' = [attempted EXCEPT ![p] = Append(@, i)]
           /\ IF r.raised
              THEN /\ pc' = [pc EXCEPT ![p] = "crashed"]
                   /\ err' = [err EXCEPT ![p] = "item"]
                   /\ last' = [last EXCEPT ![p] =
                        [item |-> i, step |-> r.step, resp |-> rs,
                         status |-> "raised"]]
                   /\ UNCHANGED <<idx, successful, failed, succeeded, tracker>>
              ELSE IF r.value
              THEN /\ successful' = [successful EXCEPT ![p] = @ + 1]
                   /\ tracker' = [tracker EXCEPT ![p] = record(@, Entry(i))]
                   /\ succeeded' = [succeeded EXCEPT ![p] = Append(@, i)]
                   /\ idx' = [idx EXCEPT ![p] = @ + 1]
                   /\ last' = [last EXCEPT ![p] =
                        [item |-> i, step |-> r.step, resp |-> rs,
                         status |-> "ok"]]
                   /\ UNCHANGED <<pc, err, failed>>
              ELSE /\ failed' = [failed EXCEPT ![p] = @ + 1]
                   /\ idx' = [idx EXCEPT ![p] = @ + 1]
                   /\ last' = [last EXCEPT ![p] =
                        [item |-> i, step |-> r.step, resp |-> rs,
                         status |-> "failed"]]
                   /\ UNCHANGED <<pc, err, successful, succeeded, tracker>>
    /\ UNCHANGED <<media, store, file, credsOK, all, discovered, new,
                   wrote, fileAtStart, prev, passed>>
    /\ cut' = {}
    /\ UNCHANGED <<utVars, fnVars, swVars>>

\* The run is stopped from outside between two candidates (a signal, a
\* KeyboardInterrupt, which no except Exception clause catches): nothing
\* after the for loop is executed.
Interrupt(p) ==
    /\ pc[p] = "loop"
    /\ pc' = [pc EXCEPT ![p] = "crashed"]
    /\ err' = [err EXCEPT ![p] = "interrupt"]
    /\ UNCHANGED <<media, store, file, credsOK, tracker, all, discovered,
                   new, idx, successful, failed, attempted, succeeded, last,
                   wrote, fileAtStart, prev, passed>>
    /\ cut' = {}
    /\ UNCHANGED <<utVars, fnVars, swVars>>

\* After the loop: advance, save, summary (uploader.py:151-159,
\* clips.py:573-588)
Finish(p, w) ==
    /\ pc[p] = "loop"
    /\ idx[p] > Len(new[p])
    /\ IF ShouldSave(successful[p])
       THEN LET t == [tracker[p] EXCEPT
                        !.wm = latest_upload_time(new[p], succeeded[p])]
                sv == SaveTracker(media, file, t, w)
            IN  /\ tracker' = [tracker EXCEPT ![p] = t]
                /\ file' = sv.file
                /\ wrote' = [wrote EXCEPT ![p] = sv.wrote]
                /\ pc' = [pc EXCEPT ![p] =
                            IF sv.raised THEN "crashed" ELSE "done"]
                /\ err' = [err EXCEPT ![p] =
                            IF sv.raised THEN "save" ELSE "none"]
       ELSE /\ w = "ok"
            /\ pc' = [pc EXCEPT ![p] = "done"]
            /\ UNCHANGED <<tracker, file, wrote, err>>
    /\ UNCHANGED <<media, store, credsOK, all, discovered, new, idx,
                   successful, failed, attempted, succeeded, last,
                   fileAtStart, prev, passed, cut>>
    /\ UNCHANGED <<utVars, fnVars, swVars>>

\* Runs one after the other: a single process.
SeqProcs == {1}

Next ==
    \/ \E p \in SeqProcs, c \in BOOLEAN, added \in SUBSET (Items \ store) :
          Begin(p, c, added)
    \/ \E p \in SeqProcs, d \in Discover(media, store) :
          \E s \in SortedSeqs(d) : DiscoverAndFilter(p, s)
    \/ \E p \in SeqProcs, e \in Env(media) : ProcessItem(p, e)
    \/ \E p \in SeqProcs, w \in WriteOutcomes : Finish(p, w)
    \/ \E p \in SeqProcs : Interrupt(p)

Spec == Init /\ [][Next]_vars

\* ---- direct calls on an UploadTracker and on the filters ---------------
Times == 0 .. MaxTime + 1

\* core/tracker.py:24-25 UploadTracker.is_new
UT_is_new(t) ==
    /\ calls < MaxCalls
    /\ calls' = calls + 1
    /\ probe' = [NoProbe EXCEPT !.op = "is_new", !.arg = t, !.before = ut.wm,
                                !.res = is_new(t, ut.wm)]
    /\ UNCHANGED ut
    /\ UNCHANGED <<runVars, fnVars, swVars>>

\* core/tracker.py:30-31 UploadTracker.update_time
UT_update_time(t) ==
    /\ calls < MaxCalls
    /\ calls' = calls + 1
    /\ ut' = update_time(ut, t)
    /\ probe' = [NoProbe EXCEPT !.op = "update_time", !.arg = t,
                                !.before = ut.wm]
    /\ UNCHANGED <<runVars, fnVars, swVars>>

\* core/tracker.py:27-28 UploadTracker.record
UT_record(i) ==
    /\ calls < MaxCalls
    /\ calls' = calls + 1
    /\ ut' = record(ut, Entry(i))
    /\ probe' = [NoProbe EXCEPT !.op = "record", !.arg = i, !.before = ut.wm]
    /\ UNCHANGED <<runVars, fnVars, swVars>>

\* uploader.py:87-89 get_new_screenshots, clips.py:477-479 get_new_clips
\* applied to a discovered list s and a watermark w
CallGetNew(s, w) ==
    /\ calls < MaxCalls
    /\ calls' = calls + 1
    /\ probe' = [NoProbe EXCEPT !.op = "get_new", !.list = s, !.before = w,
                                !.out = GetNew(media, s, w)]
    /\ UNCHANGED ut
    /\ UNCHANGED <<runVars, fnVars, swVars>>

NextTracker ==
    \/ \E t \in Times : UT_is_new(t)
    \/ \E t \in Times : UT_update_time(t)
    \/ \E i \in Items : UT_record(i)
    \/ \E d \in SUBSET Items, w \in Times :
          \E s \in SortedSeqs(d) : CallGetNew(s, w)

SpecTracker == Init /\ [][NextTracker]_vars

\* ---- direct calls of the discovery and conversion functions ------------
\* The functions keep no state between calls: a behaviour makes one call.
\* uploader.py:43-84 get_all_screenshots over an index file with these
\* records
CallGetAllScreenshots(entries) ==
    /\ call = NoCall
    /\ call' = [op |-> "get_all_screenshots", entries |-> entries,
                out |-> scan_screenshots(entries)]
    /\ UNCHANGED <<runVars, utVars, swVars>>

\* clips.py:102-177 discover_clips over a clips directory with these
\* entries
CallDiscoverClips(entries) ==
    /\ call = NoCall
    /\ call' = [op |-> "discover_clips", entries |-> entries,
                out |-> scan_clips(entries)]
    /\ UNCHANGED <<runVars, utVars, swVars>>

\* clips.py:180-410 convert_clip_to_mp4 over a media directory with this
\* listing
CallConvert(listing, ffmpeg) ==
    /\ call = NoCall
    /\ call' = [op |-> "convert", listing |-> listing, ffmpeg |-> ffmpeg,
                out |-> convert_clip_to_mp4(listing, ffmpeg)]
    /\ UNCHANGED <<runVars, utVars, swVars>>

\* gameclips_uploader.py:118-335 the legacy convert_clip_to_mp4 over a
\* media directory with this listing: the two lists it concatenates
CallLegacyConvert(listing) ==
    /\ call = NoCall
    /\ call' = [op |-> "legacy_convert", listing |-> listing,
                out |-> [video |-> legacy_video_chunks(listing),
                         audio |-> legacy_audio_chunks(listing)]]
    /\ UNCHANGED <<runVars, utVars, swVars>>

\* core/upload.py:50-175 upload_file_to_immich of a video or an image
CallUploadFile(video, o, resp) ==
    /\ call = NoCall
    /\ call' = [op |-> "upload_file", video |-> video, embed |-> o,
                resp |-> resp, out |-> upload_file_effects(video, o, resp)]
    /\ UNCHANGED <<runVars, utVars, swVars>>

NextFiles ==
    \/ \E e \in EntryLists(ScreenshotKinds, NItems) : CallGetAllScreenshots(e)
    \/ \E e \in EntryLists(ClipKinds, NItems) : CallDiscoverClips(e)
    \/ \E l \in Listings, f \in FfmpegOutcomes : CallConvert(l, f)
    \/ \E l \in Listings : CallLegacyConvert(l)
    \/ \E v \in BOOLEAN, o \in EmbedOutcomes, r \in Responses :
          CallUploadFile(v, o, r)

\* No sync run takes part: one initial state is enough.
InitFiles == Init /\ media = "clips" /\ file.kind = "missing"

SpecFiles == InitFiles /\ [][NextFiles]_vars

\* ---- Switch: platforms/switch/uploader.py ------------------------------
MaxSwFiles == 2

\* A file of a game folder: its extension, and whether its name holds a
\* 14-digit token that is a date ("ts_ok"), one that is not ("ts_invalid"),
\* or none ("no_ts").
SwitchFiles == [ext : {"jpg", "mp4", "txt"},
                name : {"ts_ok", "ts_invalid", "no_ts"}]

\* A plausible slip: a file an earlier run made a request for is skipped.
is_supported_and_new(f) ==
    f.ext \in {"jpg", "mp4"} /\ f \notin sw_prev.requested

\* switch/uploader.py:71-74
is_supported(f) == f.ext \in {"jpg", "mp4"}

\* switch/uploader.py:78
is_video(f) == f.ext = "mp4"

\* switch/uploader.py:25-39: strptime of the token; without a token, or
\* after the ValueError of an invalid one, os.path.getctime(filename) of
\* the bare file name, whose OSError no except clause catches.
\* ctime: the bare name resolves from the working directory.
extract_timestamp_from_filename(f, ctime) ==
    IF f.name = "ts_ok" THEN [raised |-> FALSE, from |-> "name"]
    ELSE IF ctime THEN [raised |-> FALSE, from |-> "ctime"]
    ELSE [raised |-> TRUE, from |-> "none"]

\* The file handed to requests.post: for a Switch video the tagged
\* temporary copy when set_video_metadata succeeded, else the original
\* (switch/uploader.py:98-110); for an image the _exif copy when
\* set_image_metadata succeeded, else the original (core/upload.py:116-133).
upload_file_path(f, embedded) == IF embedded THEN "tagged" ELSE "original"

\* A plausible slip: a file whose metadata could not be embedded is not
\* uploaded.
process_and_upload_file_strict(f, e) ==
    IF ~is_supported(f)
    THEN [raised |-> FALSE, value |-> FALSE, step |-> "extension",
          embedded |-> FALSE, requested |-> FALSE, sent |-> "none"]
    ELSE IF extract_timestamp_from_filename(f, e.ctime).raised
    THEN [raised |-> TRUE, value |-> FALSE, step |-> "timestamp",
          embedded |-> FALSE, requested |-> FALSE, sent |-> "none"]
    ELSE IF ~e.embed
    THEN [raised |-> FALSE, value |-> FALSE, step |-> "upload",
          embedded |-> FALSE, requested |-> FALSE, sent |-> "none"]
    ELSE [raised |-> FALSE,
          value |-> ~upload_file_to_immich(e.resp).raised,
          step |-> "upload", embedded |-> TRUE, requested |-> TRUE,
          sent |-> "tagged"]

\* switch/uploader.py:65-150.  e.ctime, e.embed: what getctime and the
\* metadata tool do; e.resp: the server's answer.
process_and_upload_file(f, e) ==
    IF ~is_supported(f)
    THEN [raised |-> FALSE, value |-> FALSE, step |-> "extension",
          embedded |-> FALSE, requested |-> FALSE, sent |-> "none"]
    ELSE IF extract_timestamp_from_filename(f, e.ctime).raised
    THEN [raised |-> TRUE, value |-> FALSE, step |-> "timestamp",
          embedded |-> FALSE, requested |-> FALSE, sent |-> "none"]
    ELSE [raised |-> FALSE,
          value |-> ~upload_file_to_immich(e.resp).raised,
          step |-> "upload", embedded |-> e.embed, requested |-> TRUE,
          sent |-> upload_file_path(f, e.embed)]

SwitchEnv == [ctime : BOOLEAN, embed : BOOLEAN, resp : Responses]

\* ---- process_switch2_folder (switch/uploader.py:153-200) ---------------
SwEnded == sw_pc \in {"idle", "done", "crashed"}

\* A file is put into a game folder between two runs.
SwAddFile(f) ==
    /\ SwEnded
    /\ f \notin sw_folder
    /\ Cardinality(sw_folder) < MaxSwFiles
    /\ sw_folder' = sw_folder \cup {f}
    /\ UNCHANGED <<sw_pc, sw_list, sw_idx, total_files, sw_successful,
                   sw_failed, sw_requested, sw_last, sw_prev>>
    /\ UNCHANGED <<runVars, utVars, fnVars>>

\* switch/uploader.py:158-170: the checks of the folder and of the
\* credentials, the counters set to 0.  c: the credentials are set;
\* l: the order in which iterdir() yields the files.
SwBegin(c, l) ==
    /\ SwEnded
    /\ Range(l) = sw_folder
    /\ Len(l) = Cardinality(sw_folder)
    /\ sw_prev' = IF sw_pc = "done" /\ Range(sw_list) = sw_folder
                     /\ sw_list # <<>>
                  THEN [same |-> TRUE, requested |-> Range(sw_requested)]
                  ELSE NoSwPrev
    /\ sw_list' = IF c THEN l ELSE <<>>
    /\ sw_idx' = 1
    /\ total_files' = 0
    /\ sw_successful' = 0
    /\ sw_failed' = 0
    /\ sw_requested' = <<>>
    /\ sw_last' = NoSwLast
    /\ sw_pc' = IF c THEN "loop" ELSE "done"
    /\ UNCHANGED sw_folder
    /\ UNCHANGED <<runVars, utVars, fnVars>>

\* One iteration of the inner loop (switch/uploader.py:182-195)
SwProcessFile(e) ==
    /\ sw_pc = "loop"
    /\ sw_idx <= Len(sw_list)
    /\ LET f == sw_list[sw_idx]
           r == process_and_upload_file(f, e)
       IN  /\ total_files' = total_files + 1
           /\ sw_requested' = IF r.requested THEN Append(sw_requested, f)
                              ELSE sw_requested
           /\ sw_last' = [file |-> f, step |-> r.step,
                          embedded |-> r.embedded,
                          requested |-> r.requested, sent |-> r.sent,
                          resp |-> IF r.requested THEN Answer(e.resp)
                                   ELSE "none",
                          status |-> IF r.raised THEN "raised"
                                     ELSE IF r.value THEN "ok" ELSE "failed"]
           /\ IF r.raised
              THEN /\ sw_pc' = "crashed"
                   /\ UNCHANGED <<sw_idx, sw_successful, sw_failed>>
              ELSE /\ sw_idx' = sw_idx + 1
                   /\ sw_successful' = sw_successful + (IF r.value THEN 1 ELSE 0)
                   /\ sw_failed' = sw_failed + (IF r.value THEN 0 ELSE 1)
                   /\ UNCHANGED sw_pc
    /\ UNCHANGED <<sw_folder, sw_list, sw_prev>>
    /\ UNCHANGED <<runVars, utVars, fnVars>>

\* The summary after the loops (switch/uploader.py:197-199)
SwFinish ==
    /\ sw_pc = "loop"
    /\ sw_idx > Len(sw_list)
    /\ sw_pc' = "done"
    /\ UNCHANGED <<sw_folder, sw_list, sw_idx, total_files, sw_successful,
                   sw_failed, sw_requested, sw_last, sw_prev>>
    /\ UNCHANGED <<runVars, utVars, fnVars>>

NextSwitch ==
    \/ \E f \in SwitchFiles : SwAddFile(f)
    \/ \E c \in BOOLEAN, l \in [1 .. Cardinality(sw_folder) -> sw_folder] :
          SwBegin(c, l)
    \/ \E e \in SwitchEnv : SwProcessFile(e)
    \/ SwFinish

\* No Steam run takes part: one initial state is enough.
InitSwitchOnly == Init /\ media = "screenshots" /\ file.kind = "missing"

SpecSwitch == InitSwitchOnly /\ [][NextSwitch]_vars

\* ---- properties --------------------------------------------------------
TimesOf(s) == {creation_time(s[k]) : k \in 1 .. Len(s)}
PersistedWm == IF file.kind = "object" THEN file.wm ELSE 0

\* C1: when a run ends with at least one success and has saved the tracker,
\* the persisted watermark is the maximum creation_time among the
\* candidates that succeeded in that run.
C1_WatermarkIsMaxOfSucceeded ==
    \A p \in Procs :
        (pc[p] = "done" /\ wrote[p] = "ok")
            => file.wm = Max(TimesOf(succeeded[p]))

\* C2: after a run, the persisted watermark is strictly smaller than the
\* creation_time of every candidate that failed in it.
C2_FailedStayNew ==
    \A p \in Procs :
        (pc[p] = "done" /\ discovered[p]) =>
            \A k \in 1 .. Len(new[p]) :
                new[p][k] \notin Range(succeeded[p])
                    => PersistedWm < creation_time(new[p][k])

\* C3 as stated: a run that discovers the same items as the completed run
\* before it has no candidate and leaves the tracker file unchanged,
\* whatever the outcomes of the run before were.
C3_SecondRunIdle ==
    \A p \in SeqProcs :
        prev.same => (new[p] = <<>> /\ file = fileAtStart[p])

\* C3 amended: a run that discovers the same items as the completed run
\* before it has no candidate and leaves the tracker file unchanged,
\* provided the run before had no candidate or persisted the tracker.
C3_SecondRunIdleAfterSave ==
    \A p \in SeqProcs :
        (prev.same /\ (prev.candidates = 0 \/ prev.wrote = "ok"))
            => (new[p] = <<>> /\ file = fileAtStart[p])

C3_Witness ==
    /\ prev.same
    /\ prev.wrote = "ok"
    /\ pc[1] = "done"
    /\ all[1] # <<>>
    /\ new[1] = <<>>

C5_StrictFilter ==
    /\ probe.op = "is_new" =>
          /\ probe.res <=> (probe.arg > probe.before)
          /\ probe.arg = probe.before => ~probe.res
          /\ probe.arg = probe.before + 1 => probe.res
    /\ probe.op = "get_new" =>
          /\ \A i \in Items :
                i \in Range(probe.out) <=>
                    (i \in Range(probe.list)
                        /\ creation_time(i) > probe.before)
          /\ \A a, b \in 1 .. Len(probe.out) :
                a < b => creation_time(probe.out[a]) <= creation_time(probe.out[b])

C5_Witness ==
    /\ probe.op = "get_new"
    /\ \E i \in Range(probe.list) : creation_time(i) = probe.before
    /\ \E i \in Range(probe.out) : creation_time(i) = probe.before + 1

\* C6: after update_time(t) the watermark is max(previous watermark, t).
C6_AdvanceMonotonic ==
    probe.op = "update_time" => ut.wm = Max({probe.before, probe.arg})

\* C7: in every persisted tracker the watermark equals the maximum
\* creation_time among the entries of the processed log, 0 for an empty log.
C7_WatermarkIsMaxOfLog ==
    file.kind = "object" =>
        file.wm = (IF file.log = <<>> THEN 0
                   ELSE Max({file.log[k].t : k \in 1 .. Len(file.log)}))

\* C8: loading the tracker never raises, and whatever is on disk that is
\* not a tracker object loads as the zero-value tracker.
C8_LoadNeverFails ==
    \A p \in Procs :
        /\ err[p] # "load"
        /\ (pc[p] = "loaded" /\ fileAtStart[p].kind # "object")
              => tracker[p] = DefaultTracker

\* C9: no failure of one candidate leaves the loop: a run never raises
\* while processing a candidate, and a run that ends has attempted every
\* candidate once, in order, each counted as successful or failed.
C9_EveryCandidateAttempted ==
    \A p \in Procs :
        /\ err[p] # "item"
        /\ pc[p] = "done" =>
              /\ attempted[p] = new[p]
              /\ successful[p] + failed[p] = Len(new[p])

\* C10: a candidate whose upload the server answers with "duplicate" is
\* counted as successful and its entry appended to the log; when the run
\* saves, every successful candidate's entry is in the persisted log and
\* the persisted watermark is not below its creation_time.
C10_DuplicateIsSuccess ==
    \A p \in SeqProcs :
        /\ last[p].resp = "duplicate" =>
              /\ last[p].status = "ok"
              /\ last[p].item \in Range(succeeded[p])
              /\ tracker[p].log # <<>>
              /\ tracker[p].log[Len(tracker[p].log)] = Entry(last[p].item)
              /\ successful[p] = Len(succeeded[p])
        /\ (pc[p] = "done" /\ wrote[p] = "ok") =>
              \A i \in Range(succeeded[p]) :
                  /\ Entry(i) \in Range(file.log)
                  /\ file.wm >= creation_time(i)

C10_Witness ==
    /\ pc[1] = "done"
    /\ wrote[1] = "ok"
    /\ last[1].resp = "duplicate"
    /\ succeeded[1] = <<last[1].item>>
    /\ file.wm = creation_time(last[1].item)

\* C11: a tracker write that fails at the end of a run does not propagate:
\* the run still ends with its summary and the tracker file is what it was
\* when the run began.
C11_WriteFailureIsContained ==
    \A p \in Procs :
        wrote[p] = "failed" => (pc[p] = "done" /\ file = fileAtStart[p])

\* C12: a run started without the Immich credentials loads no tracker,
\* discovers nothing, attempts no upload, and ends with a nonzero exit
\* status.
C12_MissingCredentialsExitNonzero ==
    \A p \in Procs :
        (pc[p] # "idle" /\ ~credsOK[p]) =>
            /\ Ended(p)
            /\ tracker[p] = DefaultTracker
            /\ ~discovered[p]
            /\ attempted[p] = <<>>
            /\ exit_status(p) # 0

\* The log a run starts from, and the entries of a list of items
LogOf(f) == IF f.kind = "object" THEN f.log ELSE <<>>
EntriesOf(s) == [k \in 1 .. Len(s) |-> Entry(s[k])]
PosIn(s, x) == CHOOSE k \in 1 .. Len(s) : s[k] = x

\* C20 as stated: when a run has ended with its summary, the persisted log
\* is the log the run started from followed by the entries of the
\* candidates that succeeded in it.
C20_LogGainsExactlySucceeded ==
    \A p \in SeqProcs :
        pc[p] = "done" =>
            LogOf(file) = LogOf(fileAtStart[p]) \o EntriesOf(succeeded[p])

\* C20 amended: when the tracker write of a run goes through, the entries
\* it adds to the persisted log are the entries of the candidates that
\* succeeded in it, one each, in processing order, with the candidate's
\* identity and creation_time; a candidate that failed gets no entry, and
\* without a completed write the persisted log is untouched.
C20_LogGainsSucceededWhenWritten ==
    \A p \in SeqProcs :
        /\ wrote[p] = "ok" =>
              LogOf(file) = LogOf(fileAtStart[p]) \o EntriesOf(succeeded[p])
        /\ wrote[p] # "ok" => LogOf(file) = LogOf(fileAtStart[p])
        /\ (pc[p] \in {"loaded", "loop"} \/ discovered[p]) =>
              tracker[p].log
                  = LogOf(fileAtStart[p]) \o EntriesOf(succeeded[p])
        /\ Range(succeeded[p]) \subseteq Range(attempted[p])
        /\ \A a, b \in 1 .. Len(succeeded[p]) :
              a < b => PosIn(new[p], succeeded[p][a])
                           < PosIn(new[p], succeeded[p][b])
        /\ last[p].status = "failed" =>
              /\ last[p].item \notin Range(succeeded[p])
              /\ Entry(last[p].item) \notin Range(tracker[p].log)

C20_Witness ==
    /\ pc[1] = "done"
    /\ wrote[1] = "ok"
    /\ LogOf(fileAtStart[1]) # <<>>
    /\ failed[1] > 0
    /\ Len(succeeded[1]) > 0
    /\ Len(file.log) = Len(fileAtStart[1].log) + Len(succeeded[1])

\* C17 as stated: a candidate that failed in a run in which a candidate
\* with a strictly larger creation_time succeeded is not in the candidate
\* set of the run after it and is not attempted again.
C17_PassedOverIsNeverNew ==
    \A p \in SeqProcs :
        \A a \in passed.later :
            a \notin Range(new[p]) /\ a \notin Range(attempted[p])

\* C17 amended: the same, for the runs whose tracker write went through.
C17_PassedOverAndSavedIsNeverNew ==
    \A p \in SeqProcs :
        \A a \in passed.laterSaved :
            a \notin Range(new[p]) /\ a \notin Range(attempted[p])

C17_Witness ==
    /\ passed.laterSaved # {}
    /\ pc[1] = "done"
    /\ discovered[1]
    /\ passed.laterSaved \subseteq Range(all[1])
    /\ new[1] = <<>>
    /\ PersistedWm > Max({creation_time(a) : a \in passed.laterSaved})

C13_BadEntryAloneIsSkipped ==
    call.op \in {"get_all_screenshots", "discover_clips"} =>
        \A k \in 1 .. Len(call.entries) :
            call.entries[k].kind = "ok"
                => call.entries[k].item \in Range(call.out)

\* C14: whatever the order of the directory listing, each track is written
\* as its init segment first (when there is one) followed by the chunk
\* files of its stream in ascending lexical order of their names, each
\* file once.
C14_InitThenChunksInLexicalOrder ==
    call.op = "convert" =>
        LET v == video_chunks(call.listing)
            a == audio_chunks(call.listing)
            InOrder(t, isInit(_), isChunk(_)) ==
                /\ Range(t) = {f \in Range(call.listing) :
                                  isInit(f) \/ isChunk(f)}
                /\ Len(t) = Cardinality(Range(t))
                /\ \A k \in 1 .. Len(t) : isInit(t[k]) => k = 1
                /\ \A j, k \in 1 .. Len(t) :
                      (j < k /\ isChunk(t[j]) /\ isChunk(t[k]))
                          => NameLess(t[j], t[k])
        IN  /\ InOrder(v, is_video_init, is_video_chunk)
            /\ InOrder(a, is_audio_init, is_audio_chunk)
            /\ call.out.remux => (call.out.video = v /\ call.out.audio = a)

C14_Witness ==
    /\ call.op = "convert"
    /\ call.listing = <<F("chunk-stream0-", <<2>>, ".m4s"),
                        F("chunk-stream0-", <<1, 0>>, ".m4s"), VideoInit>>
    /\ call.out.video = <<VideoInit, F("chunk-stream0-", <<1, 0>>, ".m4s"),
                          F("chunk-stream0-", <<2>>, ".m4s")>>

\* C15: with no chunk-stream0-*.m4s file in the directory the conversion
\* fails without running ffmpeg, an init segment or audio segments
\* notwithstanding; with a video chunk, the absence of audio segments does
\* not make it fail.
C15_NoVideoChunkNoRemux ==
    call.op = "convert" =>
        /\ (\A f \in Range(call.listing) : ~is_video_chunk(f))
              => (~call.out.remux /\ ~call.out.ok)
        /\ ((\E f \in Range(call.listing) : is_video_chunk(f))
                /\ call.out.audio = <<>> /\ call.ffmpeg = "ok")
              => call.out.ok

\* C16 as stated: the Switch sync skips what an earlier run handled: a run
\* over the folder the run before it ended on makes no upload request.
C16_SecondSwitchRunIdle ==
    sw_prev.same => sw_requested = <<>>

\* C16 amended: the Switch sync keeps no cursor: a run that ends with its
\* summary has made one upload request for every supported file of the
\* folder it listed, so a run over the folder the run before it ended on
\* repeats every request of that run.
C16_SwitchRunRepeatsRequests ==
    (sw_pc = "done" /\ sw_list # <<>>) =>
        /\ Range(sw_requested) = {f \in Range(sw_list) : is_supported(f)}
        /\ Len(sw_requested) = Cardinality(Range(sw_requested))
        /\ total_files = Len(sw_list)
        /\ sw_successful + sw_failed = total_files
        /\ sw_prev.same => Range(sw_requested) = sw_prev.requested

C16_Witness ==
    /\ sw_pc = "done"
    /\ sw_prev.same
    /\ sw_prev.requested # {}
    /\ Range(sw_requested) = sw_prev.requested
    /\ sw_last.status = "ok"
    /\ sw_successful = Len(sw_requested)

\* C19 as stated: an upload request is made for a file only after its
\* metadata embedding succeeded; a file whose embedding failed is not sent
\* and is counted as failed.
C19_NoUploadAfterFailedEmbed ==
    (sw_last.step = "upload" /\ ~sw_last.embedded) =>
        /\ ~sw_last.requested
        /\ sw_last.status = "failed"

\* C19 amended: an upload request is made whether or not the embedding
\* succeeded: the tagged copy is sent after a successful embedding, the
\* original file after a failed one, and the file is counted by the
\* outcome of the upload alone.
C19_FailedEmbedUploadsOriginal ==
    sw_last.step = "upload" =>
        /\ sw_last.requested
        /\ sw_last.sent = (IF sw_last.embedded THEN "tagged" ELSE "original")
        /\ sw_last.status \in {"ok", "failed"}
        /\ sw_last.status = "ok"
              <=> sw_last.resp \notin {"error", "error_object"}
        /\ sw_requested # <<>>
        /\ sw_requested[Len(sw_requested)] = sw_last.file

C19_Witness ==
    /\ sw_last.step = "upload"
    /\ is_video(sw_last.file)
    /\ ~sw_last.embedded
    /\ sw_last.sent = "original"
    /\ sw_last.status = "ok"
    /\ sw_successful > 0

IsPrefix(a, b) == Len(a) <= Len(b) /\ SubSeq(b, 1, Len(a)) = a

C22_OneReadOneWriteAtTheEnd ==
    /\ [](\A p \in SeqProcs :
            /\ pc[p] = "loaded"
                  => tracker[p] = LoadTracker(media, fileAtStart[p]).data
            /\ pc[p] = "loop" => file = fileAtStart[p]
            /\ (pc[p] = "crashed" /\ err[p] \in {"item", "interrupt"})
                  => (file = fileAtStart[p] /\ wrote[p] = "none")
            /\ discovered[p]
                  => (cut \cap Range(all[p])) \subseteq Range(new[p]))
    /\ [][\A p \in SeqProcs :
            file' # file =>
                /\ pc[p] = "loop"
                /\ idx[p] > Len(new[p])
                /\ wrote[p] = "none"
                /\ wrote'[p] = "ok"
                /\ pc'[p] = "done"]_vars

C22_Witness ==
    /\ cut # {}
    /\ discovered[1]
    /\ cut \subseteq Range(new[1])
    /\ Cardinality(cut) > 1
    /\ pc[1] = "loop"
    /\ file = fileAtStart[1]
    /\ file.kind = "object"

\* C25: on every return of convert_clip_to_mp4 after the two temporary
\* files were created, neither of them exists any more.
C25_NoTemporaryFileLeft ==
    (call.op = "convert" /\ call.out.created) => call.out.temps = {}

\* C26: after upload_file_to_immich of an image the original file still
\* exists and the _exif copy made next to it does not, whatever the
\* embedding and the upload did.
C26_SourceDirectoryAsFound ==
    (call.op = "upload_file" /\ ~call.video) =>
        (call.out.original_exists /\ ~call.out.exif_left)

\* C27: the file the x-immich-checksum header is computed from is the file
\* whose bytes are uploaded in the request.
C27_ChecksumOfUploadedBytes ==
    call.op = "upload_file" => call.out.hashed = call.out.sent

\* C28: for every directory listing the legacy convert_clip_to_mp4 puts
\* the same files in the same order into the two tracks as the packaged
\* one does.
C28_LegacyWritesSameSequence ==
    call.op = "legacy_convert" =>
        /\ call.out.video = video_chunks(call.listing)
        /\ call.out.audio = audio_chunks(call.listing)

\* C29: a file with a supported extension whose name holds no 14-digit
\* token, or one that is no date, does not end a Switch run: the run never
\* raises, and when it ends every file of the folder has been processed
\* and counted.
C29_BadNameDoesNotAbort ==
    /\ sw_pc # "crashed"
    /\ sw_last.status # "raised"
    /\ sw_pc = "done" => total_files = Len(sw_list)

\* C30: the upload wrappers report success exactly when
\* upload_file_to_immich returned without raising: a candidate whose upload
\* request was made is counted as failed only if the request raised.
C30_FailedOnlyWhenRaised ==
    \A p \in SeqProcs :
        last[p].step = "upload" =>
            (last[p].status = "ok"
                <=> last[p].resp \notin {"error", "error_object"})

\* ---- two runs against the same tracker file ----------------------------
\* Two invocations of main(), one run each, their steps interleaved in any
\* order: nothing in uploader.py or clips.py locks the tracker file, and
\* save_upload_tracker opens it with "w" and dumps the dict the run holds.
\* Two screenshot runs; their attempts either go through or meet a server
\* that does not answer, and the tracker file does not exist before them.
OverlapEnv(m) ==
    {e \in Env(m) : /\ e.exists /\ e.mpd /\ e.convert /\ e.utime
                    /\ e.resp \in {"created", "timeout"}}

InitOverlap == Init /\ media = "screenshots" /\ file.kind = "missing"

NextOverlap ==
    \/ \E p \in Procs, added \in SUBSET (Items \ store) :
          pc[p] = "idle" /\ Begin(p, TRUE, added)
    \/ \E p \in Procs, d \in Discover(media, store) :
          \E s \in SortedSeqs(d) : DiscoverAndFilter(p, s)
    \/ \E p \in Procs, e \in OverlapEnv(media) : ProcessItem(p, e)
    \/ \E p \in Procs, w \in WriteOutcomes : Finish(p, w)
    \/ \E p \in Procs : Interrupt(p)

SpecOverlap == InitOverlap /\ [][NextOverlap]_vars

\* Both runs have ended with a write that went through, and both had
\* loaded the tracker before either wrote it: a write changes the file,
\* so the two runs began from the same file.
Overlapped ==
    /\ \A p \in Procs : pc[p] = "done" /\ wrote[p] = "ok"
    /\ fileAtStart[1] = fileAtStart[2]

\* C24 as stated: when two runs against the same tracker file overlap, the
\* file after both have finished contains every entry recorded by either
\* run and a watermark not smaller than the one either run wrote.
C24_OverlapKeepsBoth ==
    Overlapped =>
        \A p \in Procs :
            /\ Range(tracker[p].log) \subseteq Range(LogOf(file))
            /\ PersistedWm >= tracker[p].wm

\* C24, amended: when two runs against the same tracker file overlap, the
\* file after both have finished is exactly the tracker one of the two
\* runs held when it saved (the one that saved last): entries and
\* watermark of the other run are on disk only as far as that run has
\* them too.
C24_OverlapLastWriterWins ==
    Overlapped => \E p \in Procs : file = tracker[p]

\* Two overlapping runs after which an entry one of them recorded, and the
\* watermark it wrote, are gone from the file.
C24_Witness ==
    /\ Overlapped
    /\ \E p \in Procs :
          /\ ~(Range(tracker[p].log) \subseteq Range(LogOf(file)))
          /\ PersistedWm < tracker[p].wm

====
